---- MODULE Spec2Model ----
\* Contiguous frame pool allocator (MP2_Sources/cont_frame_pool.C):
\* two-bit-per-frame bitmap, first-fit get_frames, mark_inaccessible,
\* registry-routed release_frames.
EXTENDS Integers, Sequences, FiniteSets, TLC

\* ------------------------------------------------------------------ bounds
\* FRAME_SIZE comes from the machine header; 4096 bytes per frame.
FRAME_SIZE == 4096
\* size of the largest pool the callers build
MaxFrames == 5
\* number of pools the callers build (the table itself has 100 entries)
MaxPools == 2
\* largest request passed to get_frames / mark_inaccessible
MaxReq == 3
\* how far below zero the callers let the free counter drift
MaxDebt == 1
\* physical memory holds frames 1 .. MemFrames
MemFrames == 6
\* capacity of the static table frame_pools[100]
MaxFramePools == 100
\* needed_info_frames is asked about 0 .. MaxInfo bitmap frames' worth
MaxInfo == 3

\* inputs the callers draw from
Bases == {1, 4}
Sizes == {2, MaxFrames, FRAME_SIZE * 4 + 1}
\* what the info frame's memory holds before the constructor runs
Garbage == {0, 255}
FrameNos == 0 .. MemFrames + 1

\* external info frame of a pool at base b: a frame well above every pool
ExtInfo(b) == 100 + b

\* frame_pools, n_frame_pools: the static registry; each entry carries the
\*   fields of the pool object it points to.  nFreeFrames holds the integer
\*   the C counter is congruent to modulo its width: -1 stands for the value
\*   an unsigned counter wraps to when 1 is taken from 0.
\* aborted: an assert has failed and the kernel has halted.
\* live: the runs handed out by get_frames or made by mark_inaccessible and
\*   not yet released, each with its pool, head frame number and length.
\* last, prev: the last call (operation, pool index, arguments, value
\*   returned) and the registry as it was before that call.
VARIABLES frame_pools, n_frame_pools, aborted, last, prev, live

vars == <<frame_pools, n_frame_pools, aborted, last, prev, live>>

\* ------------------------------------------------------------ bitmap codec
RECURSIVE BitAnd(_, _, _)
BitAnd(a, b, k) ==
    IF k = 0 THEN 0
    ELSE (a % 2) * (b % 2) + 2 * BitAnd(a \div 2, b \div 2, k - 1)

RECURSIVE BitOr(_, _, _)
BitOr(a, b, k) ==
    IF k = 0 THEN 0
    ELSE (IF (a % 2) + (b % 2) > 0 THEN 1 ELSE 0)
         + 2 * BitOr(a \div 2, b \div 2, k - 1)

\* & and | on unsigned char, tabulated once
AndTable == [a \in 0 .. 255 |-> [b \in 0 .. 255 |-> BitAnd(a, b, 8)]]
OrTable == [a \in 0 .. 255 |-> [b \in 0 .. 255 |-> BitOr(a, b, 8)]]
And8(a, b) == AndTable[a][b]
Or8(a, b) == OrTable[a][b]

\* unsigned char mask = 0x3 << shift
Mask(shift) == (3 * (2 ^ shift)) % 256

\* the raw two bits stored for frame _frame_no
Slot(bitmap, _frame_no) ==
    LET bitmap_index == _frame_no \div 4
        shift == (_frame_no % 4) * 2
    IN  And8(bitmap[bitmap_index], Mask(shift)) \div (2 ^ shift)

get_state(bitmap, _frame_no) ==
    LET state == Slot(bitmap, _frame_no)
    IN  CASE state = 0 -> "Free"
          [] state = 1 -> "Used"
          [] state = 2 -> "HoS"
          [] OTHER -> "Free"

StateBits(_state) ==
    CASE _state = "Free" -> 0
      [] _state = "Used" -> 1
      [] _state = "HoS" -> 2

\* variant: the new bits are or-ed in without clearing the slot first
set_state_noclear(bitmap, _frame_no, _state) ==
    LET bitmap_index == _frame_no \div 4
        shift == (_frame_no % 4) * 2
    IN  [bitmap EXCEPT ![bitmap_index] =
            Or8(bitmap[bitmap_index], (StateBits(_state) * (2 ^ shift)) % 256)]

set_state(bitmap, _frame_no, _state) ==
    LET bitmap_index == _frame_no \div 4
        shift == (_frame_no % 4) * 2
        cleared == And8(bitmap[bitmap_index], 255 - Mask(shift))
    IN  [bitmap EXCEPT ![bitmap_index] =
            Or8(cleared, (StateBits(_state) * (2 ^ shift)) % 256)]

\* ------------------------------------------------------------- constructor
NBytes(n) == (n + 3) \div 4

\* for (fno = 0; fno < _n_frames; fno++) set_state(fno, Free)
RECURSIVE InitFree(_, _, _)
InitFree(bitmap, fno, _n_frames) ==
    IF fno < _n_frames
    THEN InitFree(set_state(bitmap, fno, "Free"), fno + 1, _n_frames)
    ELSE bitmap

\* variant: the frame that holds the bitmap is not set aside
NewPoolUnreserved(_base_frame_no, _n_frames, _info_frame_no, mem) ==
    LET raw == [b \in 0 .. NBytes(_n_frames) - 1 |-> mem]
    IN  [base_frame_no |-> _base_frame_no,
         nframes |-> _n_frames,
         info_frame_no |-> _info_frame_no,
         bitmap |-> InitFree(raw, 0, _n_frames),
         nFreeFrames |-> _n_frames]

NewPool(_base_frame_no, _n_frames, _info_frame_no, mem) ==
    LET raw == [b \in 0 .. NBytes(_n_frames) - 1 |-> mem]
        cleared == InitFree(raw, 0, _n_frames)
    IN  [base_frame_no |-> _base_frame_no,
         nframes |-> _n_frames,
         info_frame_no |-> _info_frame_no,
         bitmap |-> IF _info_frame_no = 0
                    THEN set_state(cleared, 0, "Used")
                    ELSE cleared,
         nFreeFrames |-> IF _info_frame_no = 0
                         THEN _n_frames - 1
                         ELSE _n_frames]

\* the caller's precondition: pool regions do not overlap
Overlaps(p, b, n) ==
    /\ p.base_frame_no < b + n
    /\ b < p.base_frame_no + p.nframes

NoOp == [op |-> "none", pool |-> 0, arg |-> 0, n |-> 0, ret |-> 0]

Init ==
    /\ frame_pools = <<>>
    /\ n_frame_pools = 0
    /\ aborted = FALSE
    /\ last = NoOp
    /\ prev = <<>>
    /\ live = {}

\* the constructor.  frame_pools[n_frame_pools] = this is not guarded: with
\* the table full the store goes to the word after the table, and the
\* counter ends as whatever that store and the increment leave in it.
ConstructBody(b, n, info, mem) ==
    /\ ~aborted
    /\ prev' = frame_pools
    /\ last' = [op |-> "construct", pool |-> n_frame_pools + 1,
                arg |-> b, n |-> n, ret |-> 0]
    /\ IF n <= FRAME_SIZE * 4
       THEN /\ frame_pools' = Append(frame_pools, NewPool(b, n, info, mem))
            /\ IF n_frame_pools < MaxFramePools
               THEN n_frame_pools' = n_frame_pools + 1
               ELSE n_frame_pools' \in 0 .. MaxFramePools + 1
            /\ aborted' = FALSE
       ELSE /\ aborted' = TRUE
            /\ UNCHANGED <<frame_pools, n_frame_pools>>
    /\ UNCHANGED live

Construct(b, n, info, mem) ==
    /\ n_frame_pools < MaxPools
    /\ n > FRAME_SIZE * 4 \/ b + n - 1 <= MemFrames
    /\ \A i \in 1 .. Len(frame_pools) : ~Overlaps(frame_pools[i], b, n)
    /\ ConstructBody(b, n, info, mem)

\* one more one-frame self-hosted pool right after the pools built so far;
\* the first store past the table ends the run
ConstructFill ==
    /\ Len(frame_pools) <= MaxFramePools
    /\ n_frame_pools = Len(frame_pools)
    /\ ConstructBody(n_frame_pools + 1, 1, 0, 0)

\* --------------------------------------------------------------- get_frames
\* the scan of get_frames: the index of the run it commits, or -1 when the
\* loop ends without one
\* variant: the candidate is left on the occupied frame
RECURSIVE ScanStale(_, _, _, _, _, _)
ScanStale(bitmap, nframes, _n_frames, fno, hos_candidate, free_frames) ==
    IF fno < nframes
    THEN IF get_state(bitmap, fno) = "Free"
         THEN IF free_frames + 1 = _n_frames
              THEN hos_candidate
              ELSE ScanStale(bitmap, nframes, _n_frames, fno + 1,
                             hos_candidate, free_frames + 1)
         ELSE ScanStale(bitmap, nframes, _n_frames, fno + 1, fno, 0)
    ELSE -1

\* variant: the count of free frames survives an occupied frame
RECURSIVE ScanNoReset(_, _, _, _, _, _)
ScanNoReset(bitmap, nframes, _n_frames, fno, hos_candidate, free_frames) ==
    IF fno < nframes
    THEN IF get_state(bitmap, fno) = "Free"
         THEN IF free_frames + 1 = _n_frames
              THEN hos_candidate
              ELSE ScanNoReset(bitmap, nframes, _n_frames, fno + 1,
                               hos_candidate, free_frames + 1)
         ELSE ScanNoReset(bitmap, nframes, _n_frames, fno + 1, fno + 1,
                          free_frames)
    ELSE -1

RECURSIVE Scan(_, _, _, _, _, _)
Scan(bitmap, nframes, _n_frames, fno, hos_candidate, free_frames) ==
    IF fno < nframes
    THEN IF get_state(bitmap, fno) = "Free"
         THEN IF free_frames + 1 = _n_frames
              THEN hos_candidate
              ELSE Scan(bitmap, nframes, _n_frames, fno + 1,
                        hos_candidate, free_frames + 1)
         ELSE Scan(bitmap, nframes, _n_frames, fno + 1, fno + 1, 0)
    ELSE -1

\* for (i = from; i < to; i++) set_state(i, Used)
RECURSIVE MarkUsed(_, _, _)
MarkUsed(bitmap, i, to) ==
    IF i < to
    THEN MarkUsed(set_state(bitmap, i, "Used"), i + 1, to)
    ELSE bitmap

\* set_state(head, HoS) followed by the loop over the body
MarkRun(bitmap, head, _n_frames) ==
    MarkUsed(set_state(bitmap, head, "HoS"), head + 1, head + _n_frames)

\* variant: the free counter is decremented once, not by the run length
get_frames_dec1(p, _n_frames) ==
    LET c == Scan(p.bitmap, p.nframes, _n_frames, 0, 0, 0)
    IN  IF c = -1
        THEN [pool |-> p, ret |-> 0]
        ELSE [pool |-> [p EXCEPT !.bitmap = MarkRun(p.bitmap, c, _n_frames),
                                 !.nFreeFrames = p.nFreeFrames - 1],
              ret |-> p.base_frame_no + c]

\* variant: the free counter is charged before the scan, found or not
get_frames_charged(p, _n_frames) ==
    LET c == Scan(p.bitmap, p.nframes, _n_frames, 0, 0, 0)
        q == [p EXCEPT !.nFreeFrames = p.nFreeFrames - _n_frames]
    IN  IF c = -1
        THEN [pool |-> q, ret |-> 0]
        ELSE [pool |-> [q EXCEPT !.bitmap = MarkRun(p.bitmap, c, _n_frames)],
              ret |-> p.base_frame_no + c]

\* the pool after get_frames(_n_frames), and the value returned
get_frames(p, _n_frames) ==
    LET c == Scan(p.bitmap, p.nframes, _n_frames, 0, 0, 0)
    IN  IF c = -1
        THEN [pool |-> p, ret |-> 0]
        ELSE [pool |-> [p EXCEPT !.bitmap = MarkRun(p.bitmap, c, _n_frames),
                                 !.nFreeFrames = p.nFreeFrames - _n_frames],
              ret |-> p.base_frame_no + c]

GetFrames(i, n) ==
    /\ ~aborted
    /\ i \in 1 .. n_frame_pools
    /\ LET r == get_frames(frame_pools[i], n)
       IN  /\ r.pool.nFreeFrames >= -MaxDebt
           /\ frame_pools' = [frame_pools EXCEPT ![i] = r.pool]
           /\ last' = [op |-> "get_frames", pool |-> i, arg |-> 0,
                       n |-> n, ret |-> r.ret]
           /\ live' = IF r.pool = frame_pools[i]
                      THEN live
                      ELSE live \cup {[pool |-> i, head |-> r.ret, n |-> n]}
    /\ prev' = frame_pools
    /\ UNCHANGED <<n_frame_pools, aborted>>

\* -------------------------------------------------------- mark_inaccessible
mark_inaccessible(p, _base_frame_no, _n_frames) ==
    [p EXCEPT !.bitmap =
        MarkRun(p.bitmap, _base_frame_no - p.base_frame_no, _n_frames)]

\* the caller's precondition: the range lies in the pool and is all Free
RangeFree(p, b, n) ==
    /\ n >= 1
    /\ p.base_frame_no <= b
    /\ b + n <= p.base_frame_no + p.nframes
    /\ \A f \in b .. b + n - 1 :
          get_state(p.bitmap, f - p.base_frame_no) = "Free"

MarkInaccessible(i, b, n) ==
    /\ ~aborted
    /\ i \in 1 .. n_frame_pools
    /\ RangeFree(frame_pools[i], b, n)
    /\ frame_pools' =
          [frame_pools EXCEPT ![i] = mark_inaccessible(frame_pools[i], b, n)]
    /\ last' = [op |-> "mark_inaccessible", pool |-> i, arg |-> b,
                n |-> n, ret |-> 0]
    /\ live' = live \cup {[pool |-> i, head |-> b, n |-> n]}
    /\ prev' = frame_pools
    /\ UNCHANGED <<n_frame_pools, aborted>>

\* ----------------------------------------------------------- release_frames
\* the search loop: the first registered pool that contains the frame, 0 if
\* there is none
\* variant: the upper end of the range is tested with <=
RECURSIVE FindPoolIncl(_, _, _, _)
FindPoolIncl(pools, count, i, _first_frame_no) ==
    IF i <= count
    THEN IF /\ pools[i].base_frame_no <= _first_frame_no
            /\ _first_frame_no <= pools[i].base_frame_no + pools[i].nframes
         THEN i
         ELSE FindPoolIncl(pools, count, i + 1, _first_frame_no)
    ELSE 0

\* variant: the search starts at the second entry of the table
RECURSIVE FindPoolSkipFirst(_, _, _, _)
FindPoolSkipFirst(pools, count, i, _first_frame_no) ==
    IF i <= count
    THEN IF /\ i > 1
            /\ pools[i].base_frame_no <= _first_frame_no
            /\ _first_frame_no < pools[i].base_frame_no + pools[i].nframes
         THEN i
         ELSE FindPoolSkipFirst(pools, count, i + 1, _first_frame_no)
    ELSE 0

RECURSIVE FindPool(_, _, _, _)
FindPool(pools, count, i, _first_frame_no) ==
    IF i <= count
    THEN IF /\ pools[i].base_frame_no <= _first_frame_no
            /\ _first_frame_no < pools[i].base_frame_no + pools[i].nframes
         THEN i
         ELSE FindPool(pools, count, i + 1, _first_frame_no)
    ELSE 0

\* variant: the walk stops one frame before the pool's end
RECURSIVE FreeBodyShort(_, _, _)
FreeBodyShort(bitmap, frame_ind, nframes) ==
    IF frame_ind < nframes - 1 /\ get_state(bitmap, frame_ind) = "Used"
    THEN FreeBodyShort(set_state(bitmap, frame_ind, "Free"),
                       frame_ind + 1, nframes)
    ELSE bitmap

\* while (frame_ind < nframes && get_state(frame_ind) == Used)
RECURSIVE FreeBody(_, _, _)
FreeBody(bitmap, frame_ind, nframes) ==
    IF frame_ind < nframes /\ get_state(bitmap, frame_ind) = "Used"
    THEN FreeBody(set_state(bitmap, frame_ind, "Free"), frame_ind + 1, nframes)
    ELSE bitmap

\* variant: the head is not checked before the run is cleared
release_frames_unchecked(pools, count, _first_frame_no) ==
    LET i == FindPool(pools, count, 1, _first_frame_no)
    IN  IF i = 0
        THEN [pools |-> pools, aborted |-> FALSE]
        ELSE LET pool == pools[i]
                 frame_ind == _first_frame_no - pool.base_frame_no
             IN  [pools |-> [pools EXCEPT ![i].bitmap =
                        FreeBody(set_state(pool.bitmap, frame_ind, "Free"),
                                 frame_ind + 1, pool.nframes)],
                  aborted |-> FALSE]

\* the registry after release_frames(_first_frame_no), and whether the
\* assertion stopped the program
release_frames(pools, count, _first_frame_no) ==
    LET i == FindPool(pools, count, 1, _first_frame_no)
    IN  IF i = 0
        THEN [pools |-> pools, aborted |-> FALSE]
        ELSE LET pool == pools[i]
                 frame_ind == _first_frame_no - pool.base_frame_no
             IN  IF get_state(pool.bitmap, frame_ind) # "HoS"
                 THEN [pools |-> pools, aborted |-> TRUE]
                 ELSE [pools |-> [pools EXCEPT ![i].bitmap =
                          FreeBody(set_state(pool.bitmap, frame_ind, "Free"),
                                   frame_ind + 1, pool.nframes)],
                       aborted |-> FALSE]

ReleaseFrames(f) ==
    /\ ~aborted
    /\ LET r == release_frames(frame_pools, n_frame_pools, f)
       IN  /\ frame_pools' = r.pools
           /\ aborted' = r.aborted
           /\ live' = IF r.pools = frame_pools
                      THEN live
                      ELSE {x \in live : x.head # f}
    /\ last' = [op |-> "release_frames",
                pool |-> FindPool(frame_pools, n_frame_pools, 1, f),
                arg |-> f, n |-> 0, ret |-> 0]
    /\ prev' = frame_pools
    /\ UNCHANGED n_frame_pools

\* -------------------------------------------------------- needed_info_frames
\* variant: one frame is added whether or not there is a remainder
needed_info_frames_plus1(_n_frames) ==
    _n_frames \div (FRAME_SIZE * 4) + 1

needed_info_frames(_n_frames) ==
    _n_frames \div (FRAME_SIZE * 4)
        + (IF _n_frames % (FRAME_SIZE * 4) > 0 THEN 1 ELSE 0)

NeededInfoFrames(n) ==
    /\ ~aborted
    /\ last' = [op |-> "needed_info_frames", pool |-> 0, arg |-> 0,
                n |-> n, ret |-> needed_info_frames(n)]
    /\ prev' = frame_pools
    /\ UNCHANGED <<frame_pools, n_frame_pools, aborted, live>>

\* the pool sizes needed_info_frames is asked about
InfoInputs ==
    {k * (FRAME_SIZE * 4) + d :
        k \in 0 .. MaxInfo, d \in {0, 1, 2, FRAME_SIZE * 4 - 1}}

Next ==
    \/ \E b \in Bases, n \in Sizes, mem \in Garbage :
          \E info \in {0, ExtInfo(b)} : Construct(b, n, info, mem)
    \/ \E i \in 1 .. MaxPools, n \in 0 .. MaxReq : GetFrames(i, n)
    \/ \E i \in 1 .. MaxPools, b \in FrameNos, n \in 1 .. MaxReq :
          MarkInaccessible(i, b, n)
    \/ \E f \in FrameNos : ReleaseFrames(f)

Spec == Init /\ [][Next]_vars

\* the table filled pool by pool, with the sizing helper called in between
NextTable ==
    \/ ConstructFill
    \/ \E n \in InfoInputs : NeededInfoFrames(n)

SpecTable == Init /\ [][NextTable]_vars
\* ------------------------------------------------------------------ helpers
StateAt(p, i) == get_state(p.bitmap, i)

Indices(p) == 0 .. p.nframes - 1

FreeCount(p) == Cardinality({i \in Indices(p) : StateAt(p, i) = "Free"})

Min(S) == CHOOSE x \in S : \A y \in S : x <= y

\* the start indices of the runs of n Free frames that lie inside the pool
Fits(p, n) ==
    {c \in 0 .. p.nframes - n : \A k \in c .. c + n - 1 : StateAt(p, k) = "Free"}

\* the registered pools whose range contains frame f
Owners(pools, f) ==
    {i \in 1 .. Len(pools) :
        /\ pools[i].base_frame_no <= f
        /\ f < pools[i].base_frame_no + pools[i].nframes}

\* the first index after i that is not Used, or the pool's end
RunEnd(p, i) ==
    Min({j \in i + 1 .. p.nframes : j = p.nframes \/ StateAt(p, j) # "Used"})

\* every two-bit slot of the bitmap's bytes, padding included
Slots(p) == 0 .. 4 * NBytes(p.nframes) - 1

\* the pool the last call worked on, before and after the call
Before == prev[last.pool]
After == frame_pools[last.pool]

SameExceptPool(i) ==
    /\ Len(frame_pools) = Len(prev)
    /\ \A j \in 1 .. Len(prev) : j # i => frame_pools[j] = prev[j]

\* ------------------------------------------------------------------- claims
\* C1: in every reachable state each pool's free counter nFreeFrames equals
\* the number of its frames whose bitmap state is Free.
C1_FreeCounterMatches ==
    \A i \in 1 .. Len(frame_pools) :
        frame_pools[i].nFreeFrames = FreeCount(frame_pools[i])

\* C2: get_frames(n), n >= 1, on a pool with base_frame_no >= 1 returns
\* base_frame_no + c for the smallest c with frames c .. c+n-1 all Free and
\* inside the pool, and returns 0 exactly when there is no such c.
C2_FirstFit ==
    (last.op = "get_frames" /\ last.n >= 1 /\ Before.base_frame_no >= 1) =>
        LET F == Fits(Before, last.n)
        IN  /\ (last.ret = 0) <=> (F = {})
            /\ F # {} => last.ret = Before.base_frame_no + Min(F)

\* a get_frames call that had two separate runs to choose from, the lower
\* one not at index 0
C2_Witness ==
    /\ last.op = "get_frames"
    /\ last.n >= 1
    /\ LET F == Fits(Before, last.n)
       IN  /\ F # {}
           /\ Min(F) > 0
           /\ \E c \in F : \E k \in Min(F) .. c : StateAt(Before, k) # "Free"
           /\ last.ret = Before.base_frame_no + Min(F)

\* C3: when get_frames(n) succeeds with head h, release_frames(h) right
\* after it restores the pool's bitmap and its free counter to their values
\* before the get_frames call.
C3_GetReleaseRestores ==
    (last.op = "get_frames" /\ last.ret # 0) =>
        LET r == release_frames(frame_pools, n_frame_pools, last.ret)
        IN  /\ ~r.aborted
            /\ r.pools[last.pool].bitmap = Before.bitmap
            /\ r.pools[last.pool].nFreeFrames = Before.nFreeFrames

\* C4: release_frames(first) on the HoS frame of a run frees exactly the head
\* and the Used frames directly after it, leaves every other frame as it
\* was, and increases the free counter by the number of frames freed.
C4_ReleaseFreesRun ==
    (/\ last.op = "release_frames"
     /\ Owners(prev, last.arg) # {}
     /\ LET o == CHOOSE o \in Owners(prev, last.arg) : TRUE
        IN  StateAt(prev[o], last.arg - prev[o].base_frame_no) = "HoS") =>
        LET i == last.arg - Before.base_frame_no
            e == RunEnd(Before, i)
        IN  /\ last.pool \in Owners(prev, last.arg)
            /\ \A k \in Indices(Before) :
                  StateAt(After, k) =
                      IF k \in i .. e - 1 THEN "Free" ELSE StateAt(Before, k)
            /\ After.nFreeFrames = Before.nFreeFrames + (e - i)

\* C5: in every pool every Used frame at index i has a nearest preceding
\* non-Used frame at some j < i, and that frame is HoS; index 0 is never Used.
C5_UsedFollowsHead ==
    \A p \in 1 .. Len(frame_pools) :
        \A i \in Indices(frame_pools[p]) :
            StateAt(frame_pools[p], i) = "Used" =>
                \E j \in 0 .. i - 1 :
                    /\ StateAt(frame_pools[p], j) = "HoS"
                    /\ \A k \in j + 1 .. i - 1 :
                          StateAt(frame_pools[p], k) = "Used"

\* C6: right after a self-hosted pool (info_frame_no = 0) of n frames is
\* constructed, index 0 is HoS, indices 1 .. n-1 are Free and the free
\* counter is n - 1.
C6_SelfHostedStart ==
    (last.op = "construct" /\ ~aborted /\ After.info_frame_no = 0) =>
        /\ StateAt(After, 0) = "HoS"
        /\ \A i \in 1 .. After.nframes - 1 : StateAt(After, i) = "Free"
        /\ After.nFreeFrames = After.nframes - 1

\* C7: mark_inaccessible(base, n), n >= 1, on an in-range all-Free range sets
\* frame base to HoS and base+1 .. base+n-1 to Used, leaves the other frames
\* unchanged and decrements the free counter by n.
C7_MarkEffect ==
    last.op = "mark_inaccessible" =>
        LET i == last.arg - Before.base_frame_no
        IN  /\ \A k \in Indices(Before) :
                  StateAt(After, k) =
                      IF k = i THEN "HoS"
                      ELSE IF k \in i + 1 .. i + last.n - 1 THEN "Used"
                      ELSE StateAt(Before, k)
            /\ After.nFreeFrames = Before.nFreeFrames - last.n

\* C8: when get_frames(n) succeeds with candidate c, the only changes are
\* that index c is HoS, indices c+1 .. c+n-1 are Used and the free counter is
\* smaller by exactly n; the value returned is base_frame_no + c.
C8_GetFramesFrame ==
    (last.op = "get_frames" /\ last.ret # 0) =>
        LET c == last.ret - Before.base_frame_no
        IN  /\ c \in Fits(Before, last.n)
            /\ \A k \in Slots(Before) :
                  Slot(After.bitmap, k) =
                      IF k = c THEN StateBits("HoS")
                      ELSE IF k \in c + 1 .. c + last.n - 1
                           THEN StateBits("Used")
                      ELSE Slot(Before.bitmap, k)
            /\ After.nFreeFrames = Before.nFreeFrames - last.n
            /\ After.base_frame_no = Before.base_frame_no
            /\ After.nframes = Before.nframes
            /\ After.info_frame_no = Before.info_frame_no
            /\ SameExceptPool(last.pool)
            /\ ~aborted
            /\ n_frame_pools = Len(prev)

\* a successful get_frames of a run of two or more frames that starts after
\* index 0 and reaches into the second byte of the bitmap
C8_Witness ==
    /\ last.op = "get_frames"
    /\ last.ret # 0
    /\ last.n >= 2
    /\ last.ret - Before.base_frame_no >= 1
    /\ last.ret - Before.base_frame_no + last.n - 1 >= 4
    /\ StateAt(After, last.ret - Before.base_frame_no) = "HoS"

\* C9: release_frames(first) with first inside a registered pool and not in
\* state HoS stops at the assertion, with no bitmap and no free counter of
\* any pool modified.
C9_ReleaseNonHeadAborts ==
    (/\ last.op = "release_frames"
     /\ \E o \in Owners(prev, last.arg) :
           StateAt(prev[o], last.arg - prev[o].base_frame_no) # "HoS") =>
        /\ aborted
        /\ frame_pools = prev

\* a release of the Used body frame of a run
C9_Witness ==
    /\ last.op = "release_frames"
    /\ aborted
    /\ \E o \in Owners(prev, last.arg) :
          /\ last.arg - prev[o].base_frame_no >= 1
          /\ StateAt(prev[o], last.arg - prev[o].base_frame_no) = "Used"
          /\ StateAt(prev[o], last.arg - prev[o].base_frame_no - 1) = "HoS"

\* C10: release_frames(first) with no registered pool containing first
\* returns normally and leaves every pool and the registry unchanged.
C10_ReleaseUnknownNoOp ==
    (last.op = "release_frames" /\ Owners(prev, last.arg) = {}) =>
        /\ ~aborted
        /\ frame_pools = prev
        /\ n_frame_pools = Len(prev)

\* a release of a frame that lies between two registered pools
C10_Witness ==
    /\ last.op = "release_frames"
    /\ Owners(prev, last.arg) = {}
    /\ \E a, b \in 1 .. Len(prev) :
          /\ prev[a].base_frame_no + prev[a].nframes <= last.arg
          /\ last.arg < prev[b].base_frame_no
    /\ ~aborted
    /\ frame_pools = prev

\* C11: in every reachable state get_frames called with n equal to the
\* pool's free counter plus one returns 0.
C11_OverCounterFails ==
    (last.op = "get_frames" /\ last.n = Before.nFreeFrames + 1) =>
        last.ret = 0

\* C12: mark_inaccessible(b, n) on an in-range all-Free range, n >= 1,
\* followed at once by release_frames(b) restores the pool's bitmap and its
\* free counter to their values before the mark_inaccessible call.
C12_MarkReleaseRestores ==
    last.op = "mark_inaccessible" =>
        LET r == release_frames(frame_pools, n_frame_pools, last.arg)
        IN  /\ ~r.aborted
            /\ r.pools[last.pool].bitmap = Before.bitmap
            /\ r.pools[last.pool].nFreeFrames = Before.nFreeFrames
            /\ \A j \in 1 .. Len(prev) : j # last.pool => r.pools[j] = prev[j]

\* a marked run of two or more frames that ends at the pool's last frame and
\* has another run right in front of it
C12_Witness ==
    /\ last.op = "mark_inaccessible"
    /\ last.n >= 2
    /\ last.arg + last.n = Before.base_frame_no + Before.nframes
    /\ last.arg - Before.base_frame_no >= 1
    /\ StateAt(Before, last.arg - Before.base_frame_no - 1) # "Free"
    /\ StateAt(After, last.arg - Before.base_frame_no) = "HoS"
    /\ StateAt(After, Before.nframes - 1) = "Used"

\* C13: the registry never holds more than its capacity of 100 entries: a
\* successful construction appends exactly one reference and keeps the
\* earlier entries in order, and a construction with 100 pools registered
\* aborts instead of writing past the table.
C13_TableBounded ==
    /\ n_frame_pools <= MaxFramePools
    /\ Len(frame_pools) <= MaxFramePools
    /\ (last.op = "construct" /\ Len(prev) < MaxFramePools /\ ~aborted) =>
          /\ Len(frame_pools) = Len(prev) + 1
          /\ n_frame_pools = Len(prev) + 1
          /\ \A j \in 1 .. Len(prev) : frame_pools[j] = prev[j]
    /\ (last.op = "construct" /\ Len(prev) = MaxFramePools) =>
          /\ aborted
          /\ frame_pools = prev

\* C14: no two-bit slot of a frame index below nframes ever holds the
\* pattern 11, in any pool; a call that writes slots of a pool writes only
\* 00, 01 or 10 and leaves the slots it does not target (the padding slots
\* of the last byte among them) as they were.
C14_NoPattern11 ==
    /\ \A p \in 1 .. Len(frame_pools) :
          \A i \in Indices(frame_pools[p]) :
              Slot(frame_pools[p].bitmap, i) \in {0, 1, 2}
    /\ (last.op \in {"get_frames", "mark_inaccessible", "release_frames"}
        /\ last.pool # 0) =>
          \A k \in Slots(Before) \ Indices(Before) :
              Slot(After.bitmap, k) = Slot(Before.bitmap, k)

\* a run written into the second byte of a bitmap whose padding slots hold
\* the 11 left by the memory's earlier contents
C14_Witness ==
    /\ last.op = "get_frames"
    /\ last.ret # 0
    /\ Before.nframes = MaxFrames
    /\ MaxFrames % 4 # 0
    /\ Slot(Before.bitmap, MaxFrames - 1) = 0
    /\ Slot(After.bitmap, MaxFrames - 1) \in {1, 2}
    /\ Slot(After.bitmap, MaxFrames) = 3

\* C15: needed_info_frames(n) is the ceiling of n / (FRAME_SIZE * 4): k for
\* n = k * FRAME_SIZE * 4 and k + 1 for n = k * FRAME_SIZE * 4 + 1; the call
\* changes no allocator state.
C15_NeededInfoFrames ==
    last.op = "needed_info_frames" =>
        /\ last.ret * (FRAME_SIZE * 4) >= last.n
        /\ (last.ret - 1) * (FRAME_SIZE * 4) < last.n
        /\ last.ret >= 0
        /\ \A k \in 0 .. MaxInfo :
              /\ last.n = k * FRAME_SIZE * 4 => last.ret = k
              /\ last.n = k * FRAME_SIZE * 4 + 1 => last.ret = k + 1
        /\ frame_pools = prev
        /\ ~aborted

\* the helper asked about one frame more than two full bitmap frames cover,
\* with pools registered
C15_Witness ==
    /\ last.op = "needed_info_frames"
    /\ last.n = 2 * FRAME_SIZE * 4 + 1
    /\ last.ret = 3
    /\ n_frame_pools >= 2

\* C16: in a self-hosted pool (info_frame_no = 0) the first frame is never
\* handed out again: index 0 is never Free, and no get_frames call returns
\* base_frame_no or a run that contains index 0.
C16_BitmapFrameKept ==
    /\ \A p \in 1 .. Len(frame_pools) :
          frame_pools[p].info_frame_no = 0 =>
              StateAt(frame_pools[p], 0) # "Free"
    /\ (last.op = "get_frames" /\ last.ret # 0
        /\ Before.info_frame_no = 0) =>
          /\ last.ret > Before.base_frame_no
          /\ Slot(After.bitmap, 0) = Slot(Before.bitmap, 0)
    /\ \A x \in live :
          frame_pools[x.pool].info_frame_no = 0 =>
              x.head > frame_pools[x.pool].base_frame_no

\* a self-hosted pool hands out index 1 again after its earlier run there
\* was released
C16_Witness ==
    /\ last.op = "get_frames"
    /\ Before.info_frame_no = 0
    /\ last.ret = Before.base_frame_no + 1
    /\ Before.nFreeFrames < FreeCount(Before)
    /\ StateAt(After, 0) = "Used"

\* C17: with two or more registered pools release_frames(first) acts on the
\* one pool whose range contains first, wherever it is in the registry, and
\* leaves every other pool unchanged; get_frames and mark_inaccessible on one
\* pool change no other pool.
C17_OtherPoolsUntouched ==
    Len(prev) >= 2 =>
        /\ last.op = "release_frames" =>
              \A o \in Owners(prev, last.arg) :
                  /\ SameExceptPool(o)
                  /\ StateAt(prev[o], last.arg - prev[o].base_frame_no) = "HoS"
                        => /\ ~aborted
                           /\ StateAt(frame_pools[o],
                                      last.arg - prev[o].base_frame_no) = "Free"
        /\ last.op \in {"get_frames", "mark_inaccessible"} =>
              SameExceptPool(last.pool)

\* a run of the pool registered first is released while the pool registered
\* second, lower in memory, holds a run of its own
C17_Witness ==
    /\ last.op = "release_frames"
    /\ Len(prev) = 2
    /\ Owners(prev, last.arg) = {1}
    /\ prev[1].base_frame_no > prev[2].base_frame_no
    /\ StateAt(prev[1], last.arg - prev[1].base_frame_no) = "HoS"
    /\ StateAt(frame_pools[1], last.arg - prev[1].base_frame_no) = "Free"
    /\ \E i \in Indices(prev[2]) : StateAt(prev[2], i) = "HoS"
    /\ frame_pools[2] = prev[2]

\* the frames of a live run
RunFrames(x) == x.head .. x.head + x.n - 1

\* C18: no frame is handed out twice: the frame ranges of the live runs are
\* pairwise disjoint and lie inside their pool.
C18_RunsDisjoint ==
    /\ \A x \in live :
          /\ x.n >= 1
          /\ frame_pools[x.pool].base_frame_no <= x.head
          /\ x.head + x.n <= frame_pools[x.pool].base_frame_no
                                + frame_pools[x.pool].nframes
    /\ \A x, y \in live : x # y => RunFrames(x) \cap RunFrames(y) = {}
    /\ (last.op = "get_frames" /\ last.ret # 0) =>
          \A k \in 0 .. last.n - 1 :
              StateAt(Before, last.ret - Before.base_frame_no + k) = "Free"

\* get_frames fills the gap a release left between two live runs
C18_Witness ==
    /\ last.op = "get_frames"
    /\ last.ret # 0
    /\ Cardinality(live) >= 3
    /\ \E x, y \in live :
          /\ x.pool = last.pool /\ y.pool = last.pool
          /\ x.head + x.n = last.ret
          /\ last.ret + last.n = y.head

\* C19: when the pool has no run of n contiguous Free frames (n larger than
\* nframes included) get_frames(n) returns 0 and leaves the bitmap, the free
\* counter and the registry as they were.
C19_FailureChangesNothing ==
    (last.op = "get_frames" /\ last.n >= 1 /\ Fits(Before, last.n) = {}) =>
        /\ last.ret = 0
        /\ frame_pools = prev
        /\ n_frame_pools = Len(prev)
        /\ ~aborted

\* a request that fails although the pool has that many Free frames
C19_Witness ==
    /\ last.op = "get_frames"
    /\ last.n >= 2
    /\ FreeCount(Before) >= last.n
    /\ Fits(Before, last.n) = {}
    /\ last.ret = 0

\* the state of index i of the pool the last call worked on, before the call;
\* the constructor starts from the frames it has just set Free
StateBefore(i) ==
    IF last.op = "construct" THEN "Free" ELSE StateAt(Before, i)

\* index i went from Free to Used as the body of a run whose head, some j
\* before it, went from Free to HoS in the same call
BodyOfNewRun(i) ==
    \E j \in 0 .. i - 1 :
        /\ StateBefore(j) = "Free"
        /\ StateAt(After, j) = "HoS"
        /\ \A k \in j + 1 .. i :
              StateBefore(k) = "Free" /\ StateAt(After, k) = "Used"

\* C20: in every step of construction, get_frames, mark_inaccessible and
\* release_frames a frame's state changes only from Free to HoS, from Free to
\* Used as the body of a run whose head is set to HoS in the same operation,
\* from HoS to Free or from Used to Free.
C20_LegalTransitions ==
    (/\ last.op \in {"construct", "get_frames", "mark_inaccessible",
                     "release_frames"}
     /\ last.pool \in 1 .. Len(frame_pools)
     /\ ~aborted) =>
        \A i \in Indices(After) :
            \/ StateAt(After, i) = StateBefore(i)
            \/ StateBefore(i) = "Free" /\ StateAt(After, i) = "HoS"
            \/ StateBefore(i) = "Free" /\ StateAt(After, i) = "Used"
                  /\ BodyOfNewRun(i)
            \/ StateBefore(i) \in {"HoS", "Used"} /\ StateAt(After, i) = "Free"
====
